---------------------------- MODULE Spec2Model ----------------------------
(***************************************************************************)
(* A model of ObjectIO.py: the ObjectStream byte buffer with its read      *)
(* cursor, the two string encodings, and the recursive writeObject /       *)
(* readObject marshalling.                                                 *)
(*                                                                         *)
(* Python strings are sequences of code points.  A Python exception is an  *)
(* outcome: every operation returns a record [st, ret, err] holding the    *)
(* stream after the call, the returned value and the exception's name      *)
(* ("ok" when the call returns normally).                                  *)
(***************************************************************************)
EXTENDS Integers, Sequences, FiniteSets, TLC

(***************************************************************************)
(* Bounds of the model.                                                    *)
(***************************************************************************)
MaxOps == 2

(***************************************************************************)
(* Values.  Every Python value is a record [k, v]: k is the kind.          *)
(***************************************************************************)
IntV(n) == [k |-> "int", v |-> n]
BoolV(b) == [k |-> "bool", v |-> b]
NoneV == [k |-> "none", v |-> 0]
StrV(s) == [k |-> "str", v |-> s]
ListV(xs) == [k |-> "list", v |-> xs]
DictV(ps) == [k |-> "dict", v |-> ps]
BytesV(bs) == [k |-> "bytes", v |-> bs]
ObjV(m, c, fs) == [k |-> "obj", v |-> [mod |-> m, cls |-> c, fields |-> fs]]
StreamRef(i) == [k |-> "stream", v |-> i]
NewStreamV(st) == [k |-> "newstream", v |-> st]

R(st, ret, err) == [st |-> st, ret |-> ret, err |-> err]

\* sequencing of two statements: an exception of the first ends the method
\* with the state that statement left, otherwise K goes on from its result
Bind(r, K(_)) == IF r.err # "ok" THEN r ELSE K(r)

Min(a, b) == IF a < b THEN a ELSE b
Max(a, b) == IF a > b THEN a ELSE b

(***************************************************************************)
(* ObjectStream: construction and the byte primitives.                     *)
(***************************************************************************)
NewStream(bytes) == [data |-> bytes, offset |-> 0]

\* data[start:stop] for start >= 0
PySlice(data, start, stop) ==
    LET n == Len(data)
        lo == Min(start, n)
        hi == IF stop < 0 THEN Max(stop + n, 0) ELSE Min(stop, n)
    IN  IF hi <= lo THEN << >> ELSE SubSeq(data, lo + 1, hi)

getRemainingBytes(st) == PySlice(st.data, st.offset, Len(st.data))

getRemainingByteCount(st) == Len(st.data) - st.offset

\* data[i] = v of a Python list: a negative index counts from the end
SetItem(data, i, v) ==
    LET j == IF i < 0 THEN i + Len(data) ELSE i
    IN  IF j < 0 \/ j >= Len(data) THEN [err |-> "IndexError", data |-> data]
        ELSE [err |-> "ok", data |-> [data EXCEPT ![j + 1] = v]]

writeByte(st, b, offset) ==
    IF b < 0 \/ b > 255 THEN R(st, NoneV, "ValueError")
    ELSE IF offset = -1 THEN R([st EXCEPT !.data = Append(@, b)], NoneV, "ok")
    ELSE LET s == SetItem(st.data, offset, b)
         IN  R([st EXCEPT !.data = s.data], NoneV, s.err)

\* data[i] of a Python list
GetItem(data, i) ==
    LET j == IF i < 0 THEN i + Len(data) ELSE i
    IN  IF j < 0 \/ j >= Len(data) THEN [err |-> "IndexError", val |-> 0]
        ELSE [err |-> "ok", val |-> data[j + 1]]

readByte(st, offset) ==
    IF offset = -1
    THEN LET g == GetItem(st.data, st.offset)
         IN  IF g.err # "ok" THEN R(st, 0, g.err)
             ELSE R([st EXCEPT !.offset = @ + 1], g.val, "ok")
    ELSE LET g == GetItem(st.data, offset)
         IN  R(st, g.val, g.err)

RECURSIVE writeBytes(_, _)
writeBytes(st, byteData) ==
    IF byteData = << >> THEN R(st, NoneV, "ok")
    ELSE LET w == writeByte(st, Head(byteData), -1)
         IN  IF w.err # "ok" THEN w ELSE writeBytes(w.st, Tail(byteData))

readBytes(st, amount) ==
    LET data == PySlice(st.data, st.offset, st.offset + amount)
    IN  R([st EXCEPT !.offset = @ + Len(data)], data, "ok")

(***************************************************************************)
(* 4-byte big-endian integers.                                             *)
(***************************************************************************)
\* (integer & 0xFF000000) >> 24 after `shifts` left shifts by 8
TopByte(integer, shifts) == (integer \div (2 ^ (24 - 8 * shifts))) % 256

RECURSIVE writeIntLoop(_, _, _, _)
writeIntLoop(st, integer, byteOffset, offset) ==
    IF offset = 4 THEN R(st, NoneV, "ok")
    ELSE IF byteOffset = -1
         THEN writeIntLoop([st EXCEPT !.data = Append(@, TopByte(integer, offset))],
                           integer, byteOffset, offset + 1)
         ELSE LET s == SetItem(st.data, byteOffset + offset, TopByte(integer, offset))
              IN  IF s.err # "ok" THEN R(st, NoneV, s.err)
                  ELSE writeIntLoop([st EXCEPT !.data = s.data], integer, byteOffset, offset + 1)

writeInt(st, integer, byteOffset) == writeIntLoop(st, integer, byteOffset, 0)

RECURSIVE readIntLoop(_, _, _, _)
readIntLoop(st, integer, byteOffset, offset) ==
    IF offset = 4 THEN R(st, integer, "ok")
    ELSE LET r == IF byteOffset = -1 THEN readByte(st, -1)
                  ELSE readByte(st, byteOffset + offset)
         IN  IF r.err # "ok" THEN R(r.st, 0, r.err)
             ELSE readIntLoop(r.st, integer * 256 + r.ret, byteOffset, offset + 1)

readInt(st, byteOffset) == readIntLoop(st, 0, byteOffset, 0)

\* __reserveBytes(amount, function): appends the placeholder bytes and
\* returns the offset the deferred patch is bound to
reserveBytes(st, amount) ==
    [st |-> [st EXCEPT !.data = @ \o [i \in 1..amount |-> 0]], offset |-> Len(st.data)]

(***************************************************************************)
(* DataUtils: the text encodings.                                          *)
(***************************************************************************)
\* convertStringToUtf8Bytes: a code point above 255 reaches the call of the
\* undefined name Utilities, which raises NameError
RECURSIVE convertStringToUtf8Bytes(_)
convertStringToUtf8Bytes(string) ==
    IF string = << >> THEN [err |-> "ok", data |-> << >>]
    ELSE IF Head(string) > 255 THEN [err |-> "NameError", data |-> << >>]
    ELSE LET rest == convertStringToUtf8Bytes(Tail(string))
         IN  IF rest.err # "ok" THEN rest
             ELSE [err |-> "ok", data |-> <<Head(string)>> \o rest.data]

RECURSIVE convertStringToUtf16Bytes(_)
convertStringToUtf16Bytes(string) ==
    IF string = << >> THEN << >>
    ELSE <<Head(string) \div 256, Head(string) % 256>> \o convertStringToUtf16Bytes(Tail(string))

\* chr(x) of every element
convertListToString(byteData) == byteData

(***************************************************************************)
(* ObjectStream: strings.                                                  *)
(***************************************************************************)
writeUtf8(st, string) ==
    LET c == convertStringToUtf8Bytes(string)
    IN  IF c.err # "ok" THEN R(st, NoneV, c.err)
        ELSE R([st EXCEPT !.data = (@ \o c.data) \o <<0>>], NoneV, "ok")

RECURSIVE readUtf8Loop(_, _, _, _)
readUtf8Loop(st, string, previousByte, currentByte) ==
    IF getRemainingByteCount(st) > 0 /\ previousByte # 0 /\ currentByte # 0
    THEN LET r == readByte(st, -1)
         IN  IF r.err # "ok" THEN R(r.st, << >>, r.err)
             ELSE readUtf8Loop(r.st, Append(string, currentByte), currentByte, r.ret)
    ELSE R(st, string, "ok")

readUtf8(st) ==
    LET p == readByte(st, -1)
    IN  IF p.err # "ok" THEN R(p.st, << >>, p.err)
        ELSE IF p.ret = 0 THEN R(p.st, << >>, "ok")
        ELSE LET c == readByte(p.st, -1)
             IN  IF c.err # "ok" THEN R(c.st, << >>, c.err)
                 ELSE readUtf8Loop(c.st, <<p.ret>>, p.ret, c.ret)

writeUtf16(st, string) ==
    R([st EXCEPT !.data = (@ \o convertStringToUtf16Bytes(string)) \o <<0, 0>>], NoneV, "ok")

\* size = -1: after the first readByte the loop condition compares the list
\* getRemainingBytes() with 0, which raises TypeError
readUtf16(st, size) ==
    IF size = -1
    THEN LET b == readByte(st, -1)
         IN  IF b.err # "ok" THEN R(b.st, << >>, b.err)
             ELSE R(b.st, << >>, "TypeError")
    ELSE LET r == readBytes(st, size)
         IN  R(r.st, convertListToString(r.ret), "ok")

(***************************************************************************)
(* json.dumps and json.loads of the standard library, as writeObject and   *)
(* readObject call them (default arguments: ensure_ascii, ", " and ": "    *)
(* separators, strict strings).  Text is a sequence of code points.        *)
(***************************************************************************)
RECURSIVE Digits(_)
Digits(n) == IF n < 10 THEN <<48 + n>> ELSE Append(Digits(n \div 10), 48 + (n % 10))

HexDigit(d) == IF d < 10 THEN 48 + d ELSE 87 + d

Hex4(c) == <<HexDigit((c \div 4096) % 16), HexDigit((c \div 256) % 16),
             HexDigit((c \div 16) % 16), HexDigit(c % 16)>>

EscapeChar(c) ==
    IF c = 34 THEN <<92, 34>>
    ELSE IF c = 92 THEN <<92, 92>>
    ELSE IF c = 10 THEN <<92, 110>>
    ELSE IF c = 13 THEN <<92, 114>>
    ELSE IF c = 9 THEN <<92, 116>>
    ELSE IF c = 12 THEN <<92, 102>>
    ELSE IF c = 8 THEN <<92, 98>>
    ELSE IF c >= 32 /\ c <= 126 THEN <<c>>
    ELSE IF c < 65536 THEN <<92, 117>> \o Hex4(c)
    ELSE LET n == c - 65536
         IN  (<<92, 117>> \o Hex4(55296 + ((n \div 1024) % 1024)))
             \o (<<92, 117>> \o Hex4(56320 + (n % 1024)))

RECURSIVE EscapeString(_)
EscapeString(str) ==
    IF str = << >> THEN << >> ELSE EscapeChar(Head(str)) \o EscapeString(Tail(str))

DumpsString(str) == (<<34>> \o EscapeString(str)) \o <<34>>

RECURSIVE JsonDumps(_)
RECURSIVE DumpsItems(_, _)
RECURSIVE DumpsPairs(_, _)

\* text before the encodings h of one element and t of those after it
Joined(before, h, t) ==
    IF h.err # "ok" THEN h
    ELSE IF t.err # "ok" THEN t
    ELSE [err |-> "ok", data |-> before \o h.data \o t.data]

Enclosed(open, d, close) ==
    IF d.err # "ok" THEN d ELSE [err |-> "ok", data |-> (<<open>> \o d.data) \o <<close>>]

\* the elements of a list, ", " between them
DumpsItems(xs, i) ==
    IF i > Len(xs) THEN [err |-> "ok", data |-> << >>]
    ELSE Joined(IF i > 1 THEN <<44, 32>> ELSE << >>, JsonDumps(xs[i]), DumpsItems(xs, i + 1))

\* the items of a dict: "key": value
DumpsPairs(ps, i) ==
    IF i > Len(ps) THEN [err |-> "ok", data |-> << >>]
    ELSE Joined((IF i > 1 THEN <<44, 32>> ELSE << >>) \o DumpsString(ps[i][1]) \o <<58, 32>>,
                JsonDumps(ps[i][2]), DumpsPairs(ps, i + 1))

JsonDumps(obj) ==
    IF obj.k = "int"
    THEN [err |-> "ok", data |-> IF obj.v < 0 THEN <<45>> \o Digits(-obj.v) ELSE Digits(obj.v)]
    ELSE IF obj.k = "bool"
    THEN [err |-> "ok", data |-> IF obj.v THEN <<116, 114, 117, 101>> ELSE <<102, 97, 108, 115, 101>>]
    ELSE IF obj.k = "none" THEN [err |-> "ok", data |-> <<110, 117, 108, 108>>]
    ELSE IF obj.k = "str" THEN [err |-> "ok", data |-> DumpsString(obj.v)]
    ELSE IF obj.k = "list" THEN Enclosed(91, DumpsItems(obj.v, 1), 93)
    ELSE IF obj.k = "dict" THEN Enclosed(123, DumpsPairs(obj.v, 1), 125)
    ELSE [err |-> "TypeError", data |-> << >>]   \* not JSON serializable

FloatV(text) == [k |-> "float", v |-> text]

JErr == [err |-> "JSONDecodeError", val |-> NoneV, end |-> 0]
JOk(val, end) == [err |-> "ok", val |-> val, end |-> end]

\* the character at position i (from 1), -1 past the end
At(s, i) == IF i >= 1 /\ i <= Len(s) THEN s[i] ELSE -1

MatchAt(s, i, lit) == i + Len(lit) - 1 <= Len(s) /\ SubSeq(s, i, i + Len(lit) - 1) = lit

IsDigit(c) == c >= 48 /\ c <= 57

RECURSIVE SkipWs(_, _)
SkipWs(s, i) == IF At(s, i) \in {32, 9, 10, 13} THEN SkipWs(s, i + 1) ELSE i

RECURSIVE DigitsEnd(_, _)
DigitsEnd(s, i) == IF IsDigit(At(s, i)) THEN DigitsEnd(s, i + 1) ELSE i

RECURSIVE ParseNat(_, _, _, _)
ParseNat(s, i, end, acc) ==
    IF i >= end THEN acc ELSE ParseNat(s, i + 1, end, acc * 10 + (s[i] - 48))

HexVal(c) ==
    IF c >= 48 /\ c <= 57 THEN c - 48
    ELSE IF c >= 97 /\ c <= 102 THEN c - 87
    ELSE IF c >= 65 /\ c <= 70 THEN c - 55
    ELSE -1

\* the four hex digits at s[i..i+3], -1 when they are not four hex digits
DecodeHex4(s, i) ==
    LET d(j) == HexVal(At(s, i + j))
    IN  IF d(0) < 0 \/ d(1) < 0 \/ d(2) < 0 \/ d(3) < 0 THEN -1
        ELSE d(0) * 4096 + d(1) * 256 + d(2) * 16 + d(3)

Unescape(c) ==
    IF c = 34 THEN 34 ELSE IF c = 92 THEN 92 ELSE IF c = 47 THEN 47
    ELSE IF c = 98 THEN 8 ELSE IF c = 102 THEN 12 ELSE IF c = 110 THEN 10
    ELSE IF c = 114 THEN 13 ELSE IF c = 116 THEN 9 ELSE -1

\* the rest of the parse after a value, or the value's error
JBind(r, K(_)) == IF r.err # "ok" THEN JErr ELSE K(r)

\* the string whose opening quote is at i - 1
RECURSIVE ScanString(_, _, _)

ScanSurrogate(s, i, acc, uni, uni2) ==
    IF uni2 < 0 THEN JErr
    ELSE IF uni2 >= 56320 /\ uni2 <= 57343
    THEN ScanString(s, i + 12, Append(acc, 65536 + (uni - 55296) * 1024 + (uni2 - 56320)))
    ELSE ScanString(s, i + 6, Append(acc, uni))

ScanUnicode(s, i, acc, uni) ==
    IF uni < 0 THEN JErr
    ELSE IF uni >= 55296 /\ uni <= 56319 /\ MatchAt(s, i + 6, <<92, 117>>)
    THEN ScanSurrogate(s, i, acc, uni, DecodeHex4(s, i + 8))
    ELSE ScanString(s, i + 6, Append(acc, uni))

ScanEscape(s, i, acc, e) ==
    IF e = -1 THEN JErr
    ELSE IF e = 117 THEN ScanUnicode(s, i, acc, DecodeHex4(s, i + 2))
    ELSE IF Unescape(e) < 0 THEN JErr
    ELSE ScanString(s, i + 2, Append(acc, Unescape(e)))

ScanString(s, i, acc) ==
    LET c == At(s, i)
    IN  IF c = -1 THEN JErr
        ELSE IF c = 34 THEN JOk(acc, i + 1)
        ELSE IF c < 32 THEN JErr
        ELSE IF c # 92 THEN ScanString(s, i + 1, Append(acc, c))
        ELSE ScanEscape(s, i, acc, At(s, i + 1))

\* ps with ps[key] = val, as dict item assignment keeps the key's position
DictUpdate(ps, key, val) ==
    IF \E i \in 1..Len(ps) : ps[i][1] = key
    THEN [i \in 1..Len(ps) |-> IF ps[i][1] = key THEN <<key, val>> ELSE ps[i]]
    ELSE Append(ps, <<key, val>>)

\* the number pattern -?(0|[1-9]\d*)(\.\d+)?([eE][-+]?\d+)? at i: j is past
\* the sign, the ends are the positions past each part
IntEnd(s, j) ==
    IF At(s, j) = 48 THEN j + 1 ELSE IF IsDigit(At(s, j)) THEN DigitsEnd(s, j) ELSE 0

FracEnd(s, e) ==
    IF At(s, e) = 46 /\ IsDigit(At(s, e + 1)) THEN DigitsEnd(s, e + 1) ELSE e

ExpDigitsAt(s, f) == IF At(s, f + 1) \in {43, 45} THEN f + 2 ELSE f + 1

ExpEnd(s, f) ==
    IF At(s, f) \in {69, 101} /\ IsDigit(At(s, ExpDigitsAt(s, f)))
    THEN DigitsEnd(s, ExpDigitsAt(s, f)) ELSE f

NumberValue(s, i, j, intEnd, expEnd) ==
    IF intEnd = 0 THEN JErr
    ELSE IF expEnd # intEnd THEN JOk(FloatV(SubSeq(s, i, expEnd - 1)), expEnd)
    ELSE JOk(IntV(IF j = i THEN ParseNat(s, j, intEnd, 0) ELSE -ParseNat(s, j, intEnd, 0)),
             intEnd)

NumberFrom(s, i, j, intEnd) == NumberValue(s, i, j, intEnd, ExpEnd(s, FracEnd(s, intEnd)))

ScanNumber(s, i) ==
    IF At(s, i) = 45 THEN NumberFrom(s, i, i + 1, IntEnd(s, i + 1))
    ELSE NumberFrom(s, i, i, IntEnd(s, i))

RECURSIVE ScanOnce(_, _)
RECURSIVE ArrayLoop(_, _, _)
RECURSIVE ObjectLoop(_, _, _)

\* k is past an element of the array
ArrayNext(s, k, acc) ==
    IF At(s, k) = 93 THEN JOk(ListV(acc), k + 1)
    ELSE IF At(s, k) = 44 THEN ArrayLoop(s, SkipWs(s, k + 1), acc)
    ELSE JErr

ArrayLoop(s, i, acc) ==
    JBind(ScanOnce(s, i), LAMBDA v : ArrayNext(s, SkipWs(s, v.end), Append(acc, v.val)))

\* n is where a key must open
ObjectKey(s, n, acc) == IF At(s, n) = 34 THEN ObjectLoop(s, n + 1, acc) ELSE JErr

\* m is past a value of the object
ObjectNext(s, m, acc) ==
    IF At(s, m) = 125 THEN JOk(DictV(acc), m + 1)
    ELSE IF At(s, m) = 44 THEN ObjectKey(s, SkipWs(s, m + 1), acc)
    ELSE JErr

\* k is past a key of the object
ObjectValue(s, k, acc, key) ==
    IF At(s, k) # 58 THEN JErr
    ELSE JBind(ScanOnce(s, SkipWs(s, k + 1)),
               LAMBDA v : ObjectNext(s, SkipWs(s, v.end), DictUpdate(acc, key, v.val)))

\* i is just past the opening quote of a key
ObjectLoop(s, i, acc) ==
    JBind(ScanString(s, i, << >>), LAMBDA key : ObjectValue(s, SkipWs(s, key.end), acc, key.val))

\* what is at i when it is no string, object, array, null, true or false
NumberOrConstant(s, i, number) ==
    IF number.err = "ok" THEN number
    ELSE IF MatchAt(s, i, <<78, 97, 78>>) THEN JOk(FloatV(<<78, 97, 78>>), i + 3)
    ELSE IF MatchAt(s, i, <<73, 110, 102, 105, 110, 105, 116, 121>>)
    THEN JOk(FloatV(SubSeq(s, i, i + 7)), i + 8)
    ELSE IF MatchAt(s, i, <<45, 73, 110, 102, 105, 110, 105, 116, 121>>)
    THEN JOk(FloatV(SubSeq(s, i, i + 8)), i + 9)
    ELSE JErr

\* j is past "{" or "[" and the white space after it
ObjectOpen(s, j) == IF At(s, j) = 125 THEN JOk(DictV(<< >>), j + 1) ELSE ObjectKey(s, j, << >>)

ArrayOpen(s, j) == IF At(s, j) = 93 THEN JOk(ListV(<< >>), j + 1) ELSE ArrayLoop(s, j, << >>)

ScanOnce(s, i) ==
    LET c == At(s, i)
    IN  IF c = -1 THEN JErr
        ELSE IF c = 34
        THEN JBind(ScanString(s, i + 1, << >>), LAMBDA r : JOk(StrV(r.val), r.end))
        ELSE IF c = 123 THEN ObjectOpen(s, SkipWs(s, i + 1))
        ELSE IF c = 91 THEN ArrayOpen(s, SkipWs(s, i + 1))
        ELSE IF MatchAt(s, i, <<110, 117, 108, 108>>) THEN JOk(NoneV, i + 4)
        ELSE IF MatchAt(s, i, <<116, 114, 117, 101>>) THEN JOk(BoolV(TRUE), i + 4)
        ELSE IF MatchAt(s, i, <<102, 97, 108, 115, 101>>) THEN JOk(BoolV(FALSE), i + 5)
        ELSE NumberOrConstant(s, i, ScanNumber(s, i))

\* the value must be all of the text but white space
WholeText(s, v) ==
    IF v.err # "ok" THEN [err |-> "JSONDecodeError", val |-> NoneV]
    ELSE IF SkipWs(s, v.end) <= Len(s) THEN [err |-> "JSONDecodeError", val |-> NoneV]
    ELSE [err |-> "ok", val |-> v.val]

JsonLoads(s) == WholeText(s, ScanOnce(s, SkipWs(s, 1)))

(***************************************************************************)
(* Types.  A type is the pair of names writeObject records: the module of  *)
(* the class and the name of the class.                                    *)
(***************************************************************************)
N_builtins == <<98, 117, 105, 108, 116, 105, 110, 115>>
N_ObjectIO == <<79, 98, 106, 101, 99, 116, 73, 79>>
N_main == <<95, 95, 109, 97, 105, 110, 95, 95>>
N_int == <<105, 110, 116>>
N_bool == <<98, 111, 111, 108>>
N_str == <<115, 116, 114>>
N_list == <<108, 105, 115, 116>>
N_dict == <<100, 105, 99, 116>>
N_float == <<102, 108, 111, 97, 116>>
N_NoneType == <<78, 111, 110, 101, 84, 121, 112, 101>>
N_ObjectStream == <<79, 98, 106, 101, 99, 116, 83, 116, 114, 101, 97, 109>>
N_P == <<80>>

\* obj.__class__.__module__ and obj.__class__.__name__
ClassOf(obj) ==
    IF obj.k = "int" THEN <<N_builtins, N_int>>
    ELSE IF obj.k = "bool" THEN <<N_builtins, N_bool>>
    ELSE IF obj.k = "none" THEN <<N_builtins, N_NoneType>>
    ELSE IF obj.k = "str" THEN <<N_builtins, N_str>>
    ELSE IF obj.k = "list" THEN <<N_builtins, N_list>>
    ELSE IF obj.k = "dict" THEN <<N_builtins, N_dict>>
    ELSE IF obj.k = "float" THEN <<N_builtins, N_float>>
    ELSE IF obj.k = "obj" THEN <<obj.v.mod, obj.v.cls>>
    ELSE <<N_ObjectIO, N_ObjectStream>>

\* sys.modules: the loaded modules and the classes each one defines.  The
\* class of None is not an attribute of builtins.  P is a class of the
\* application, "class P: pass".
SysModules ==
    [m \in {N_builtins, N_ObjectIO, N_main} |->
        IF m = N_builtins THEN {N_int, N_bool, N_str, N_list, N_dict, N_float}
        ELSE IF m = N_ObjectIO THEN {N_ObjectStream}
        ELSE {N_P}]

\* only a missing module raises KeyError, which getClass turns into
\* TypeError; a missing class is getattr's AttributeError
getClass(moduleName, className) ==
    IF moduleName \notin DOMAIN SysModules THEN [err |-> "TypeError", cls |-> << >>]
    ELSE IF className \notin SysModules[moduleName] THEN [err |-> "AttributeError", cls |-> << >>]
    ELSE [err |-> "ok", cls |-> <<moduleName, className>>]

\* hasattr(c, "writeToObjectStream") and hasattr(c, "readFromObjectStream")
HasCodec(cls) == cls = <<N_ObjectIO, N_ObjectStream>>

\* hasattr(obj, "__dict__") of an instance
HasDict(obj) == obj.k \in {"obj", "stream", "newstream"}

\* objectClass()
Construct(cls) ==
    IF cls = <<N_builtins, N_int>> THEN IntV(0)
    ELSE IF cls = <<N_builtins, N_bool>> THEN BoolV(FALSE)
    ELSE IF cls = <<N_builtins, N_str>> THEN StrV(<< >>)
    ELSE IF cls = <<N_builtins, N_list>> THEN ListV(<< >>)
    ELSE IF cls = <<N_builtins, N_dict>> THEN DictV(<< >>)
    ELSE IF cls = <<N_builtins, N_float>> THEN FloatV(<<48, 46, 48>>)
    ELSE IF cls = <<N_ObjectIO, N_ObjectStream>> THEN NewStreamV(NewStream(<< >>))
    ELSE ObjV(cls[1], cls[2], << >>)

(***************************************************************************)
(* ObjectStream as an object written into a stream.                        *)
(***************************************************************************)
\* self.writeToObjectStream(stream): self is the state of the stream that
\* is written, st the state of the stream written to
writeToObjectStream(self, st) ==
    LET a == writeByte(st, 0, -1)
        b == writeInt(a.st, self.offset, -1)
        c == writeInt(b.st, Len(self.data), -1)
    IN  writeBytes(c.st, self.data)

\* self.readFromObjectStream(stream) on the heap h, which maps the streams'
\* identities to their states: a method's outcome on the heap is [h, ret,
\* err].  The version byte is read from self, not from stream.
OnHeap(h, i, r) == [h |-> [h EXCEPT ![i] = r.st], ret |-> r.ret, err |-> r.err]

readFromObjectStream(h, self, stream) ==
    Bind(OnHeap(h, self, readByte(h[self], -1)), LAMBDA version :
    Bind(OnHeap(version.h, stream, readInt(version.h[stream], -1)), LAMBDA o :
    Bind(OnHeap([o.h EXCEPT ![self].offset = o.ret], stream,
                readInt([o.h EXCEPT ![self].offset = o.ret][stream], -1)), LAMBDA n :
    Bind(OnHeap(n.h, stream, readBytes(n.h[stream], n.ret)), LAMBDA d :
    [h |-> [d.h EXCEPT ![self].data = d.ret], ret |-> NoneV, err |-> "ok"]))))

(***************************************************************************)
(* writeObject and readObject.                                             *)
(***************************************************************************)
RECURSIVE writeObject(_, _, _, _)
RECURSIVE writeFields(_, _, _, _, _)

\* for variable, value in metadata.items()
writeFields(st, self, h, fields, i) ==
    IF i > Len(fields) THEN R(st, NoneV, "ok")
    ELSE Bind(writeUtf8(st, fields[i][1]), LAMBDA n :
         Bind(writeObject(n.st, self, h, fields[i][2]), LAMBDA o :
         writeFields(o.st, self, h, fields, i + 1)))

\* self.writeUtf8(json.dumps(obj))
writeJson(st, j) == IF j.err # "ok" THEN R(st, NoneV, j.err) ELSE writeUtf8(st, j.data)

\* the body of a frame, by what obj has
writeBody(st, self, h, obj) ==
    IF obj.k \in {"stream", "newstream"}
    THEN writeToObjectStream(IF obj.k = "stream" THEN h[obj.v] ELSE obj.v, st)
    ELSE IF HasDict(obj)
    THEN Bind(writeByte(st, 1, -1), LAMBDA f :
         Bind(writeInt(f.st, Len(obj.v.fields), -1), LAMBDA k :
         writeFields(k.st, self, h, obj.v.fields, 1)))
    ELSE Bind(writeByte(st, 0, -1), LAMBDA f : writeJson(f.st, JsonDumps(obj)))

\* the body, then writeSizeFunction(len(self.data) - currentSize); res is
\* the outcome of __reserveBytes
writeSized(res, self, h, obj) ==
    Bind(writeBody(res.st, self, h, obj), LAMBDA body :
    writeInt(body.st, Len(body.st.data) - Len(res.st.data), res.offset))

\* writeObject after the self test
writeFrame(st, self, h, obj) ==
    Bind(writeUtf8(st, ClassOf(obj)[1]), LAMBDA m :
    Bind(writeUtf8(m.st, ClassOf(obj)[2]), LAMBDA c :
    Bind(writeByte(c.st, 0, -1), LAMBDA version :
    writeSized(reserveBytes(version.st, 4), self, h, obj))))

\* writeObject without its test for the stream itself
writeObject_NoSelfTest(st, self, h, obj) == writeFrame(st, self, h, obj)

\* self.writeObject(obj): st is the state of stream self, h the heap that
\* holds the other streams obj may name
writeObject(st, self, h, obj) ==
    IF obj.k = "stream" /\ obj.v = self THEN R(st, NoneV, "RecursionError")
    ELSE writeFrame(st, self, h, obj)

RECURSIVE readObject(_)
RECURSIVE readFields(_, _, _)

\* while metadataSize > 0: metadata.update({self.readUtf8(): self.readObject()})
readFields(st, metadataSize, metadata) ==
    IF metadataSize <= 0 THEN R(st, metadata, "ok")
    ELSE Bind(readUtf8(st), LAMBDA n :
         Bind(readObject(n.st), LAMBDA o :
         readFields(o.st, metadataSize - 1, DictUpdate(metadata, n.ret, o.ret))))

RECURSIVE UpdateAll(_, _)
UpdateAll(ps, qs) ==
    IF qs = << >> THEN ps ELSE UpdateAll(DictUpdate(ps, Head(qs)[1], Head(qs)[2]), Tail(qs))

\* newObject.__dict__.update(metadata)
updateDict(st, newObject, metadata) ==
    IF ~HasDict(newObject) THEN R(st, NoneV, "AttributeError")
    ELSE R(st, [newObject EXCEPT !.v.fields = UpdateAll(@, metadata)], "ok")

\* the outcome on the stream of a call on the heap of the stream, 1, and
\* the new object, 0
ofHeap(x) == R(x.h[1], NewStreamV(x.h[0]), x.err)

\* readObject once the class is resolved
readBody(st, objectClass) ==
    IF HasCodec(objectClass)
    THEN ofHeap(readFromObjectStream([i \in {0, 1} |-> IF i = 0 THEN Construct(objectClass).v ELSE st],
                                     0, 1))
    ELSE Bind(readByte(st, -1), LAMBDA f :
         IF f.ret = 0
         THEN Bind(readUtf8(f.st), LAMBDA u : R(u.st, JsonLoads(u.ret).val, JsonLoads(u.ret).err))
         ELSE Bind(readInt(f.st, -1), LAMBDA k :
              Bind(readFields(k.st, k.ret, << >>), LAMBDA fs :
              updateDict(fs.st, Construct(objectClass), fs.ret))))

\* readObject from the call of Utils.getClass on
resolved(st, objectClass) ==
    IF objectClass.err # "ok" THEN R(st, NoneV, objectClass.err)
    ELSE readBody(st, objectClass.cls)

readObject(st) ==
    Bind(readUtf8(st), LAMBDA moduleName :
    Bind(readUtf8(moduleName.st), LAMBDA className :
    Bind(readByte(className.st, -1), LAMBDA version :
    Bind(readInt(version.st, -1), LAMBDA dataSize :
    resolved(dataSize.st, getClass(moduleName.ret, className.ret))))))

(***************************************************************************)
(* The program: two ObjectStream instances, 1 and 2, and a client that     *)
(* calls their public methods.  last is the record of the latest call      *)
(* (its name, receiver, argument, the heap before it, the exception and    *)
(* the returned value), prev the record of the call before it.             *)
(***************************************************************************)
VARIABLES streams, last, prev, nops

vars == <<streams, last, prev, nops>>

StreamIds == {1, 2}

NoCall == [op |-> "none", self |-> 0, arg |-> NoneV, pre |-> << >>, err |-> "ok", ret |-> NoneV]

\* a frame header that names a module sys.modules does not hold: "nm", "X",
\* version 0, length 0
UnknownModuleFrame == <<110, 109, 0, 88, 0, 0, 0, 0, 0, 0>>

\* the byte lists the client constructs stream 1 and stream 2 from
InitData1 == {<< >>, <<72, 105>>, <<72, 105, 106>>, <<65, 0, 66>>, UnknownModuleFrame}
InitData2 == {<< >>, <<1, 2, 3>>}

\* the arguments the client passes
ByteArgs == {0, 65, 256}
ByteOffsets == {-1, 0}
BytesArgs == {<<1, 2, 3>>}
IntArgs == {5, 258}
Utf8Args == {<< >>, <<72, 105>>, <<72, 0, 105>>, <<72, 256>>}
Utf16Args == {<<65>>, <<256, 65>>, << >>}
AmountArgs == {2}
SizeArgs == {-1, 2}

N_x == <<120>>
N_y == <<121>>

\* the objects the client writes; a sequence, as its elements are of
\* different kinds
ScalarArgs ==
    <<IntV(42), IntV(-7), BoolV(TRUE), NoneV, StrV(<<72, 105>>), StrV(<<34, 256>>),
     ListV(<<IntV(1), StrV(<<72>>)>>), ListV(<<ListV(<< >>), BoolV(FALSE)>>),
     DictV(<< <<N_x, IntV(1)>>, <<N_y, ListV(<<IntV(2)>>)>> >>)>>

CompositeArgs ==
    <<ObjV(N_main, N_P, << >>),
     ObjV(N_main, N_P, << <<N_x, IntV(1)>>, <<N_y, IntV(2)>> >>),
     ObjV(N_main, N_P, << <<N_y, IntV(2)>>, <<N_x, IntV(1)>> >>),
     ObjV(N_main, N_P, << <<N_x, NoneV>> >>),
     ObjV(N_main, N_P, << <<N_x, ObjV(N_main, N_P, << <<N_y, StrV(<<72>>)>> >>)>> >>),
     ObjV(N_main, N_P, << <<N_x, StreamRef(2)>> >>),
     ObjV(N_main, N_P, << <<N_x, StreamRef(1)>> >>),
     ObjV(N_main, N_P, << <<<<256>>, IntV(1)>> >>)>>

ObjectArgs == ScalarArgs \o CompositeArgs \o <<StreamRef(1), StreamRef(2)>>

Init ==
    /\ streams \in {[i \in StreamIds |-> NewStream(IF i = 1 THEN d1 ELSE d2)] :
                        d1 \in InitData1, d2 \in InitData2}
    /\ last = NoCall
    /\ prev = NoCall
    /\ nops = 0

\* the value a method returns: kind says what r.ret is
Returned(kind, ret) ==
    IF kind = "none" THEN NoneV ELSE IF kind = "value" THEN ret ELSE [k |-> kind, v |-> ret]

\* the call op(arg) on stream self ended with r
Call(op, self, arg, r, kind) ==
    /\ nops < MaxOps
    /\ streams' = [streams EXCEPT ![self] = r.st]
    /\ last' = [op |-> op, self |-> self, arg |-> arg, pre |-> streams, err |-> r.err,
                ret |-> IF r.err = "ok" THEN Returned(kind, r.ret) ELSE NoneV]
    /\ prev' = last
    /\ nops' = nops + 1

\* the call op(arg) on stream self ended with r, an outcome on the heap
HeapCall(op, self, arg, r) ==
    /\ nops < MaxOps
    /\ streams' = r.h
    /\ last' = [op |-> op, self |-> self, arg |-> arg, pre |-> streams, err |-> r.err,
                ret |-> NoneV]
    /\ prev' = last
    /\ nops' = nops + 1

WriteByte ==
    \E b \in ByteArgs, o \in ByteOffsets :
        Call("writeByte", 1, ListV(<<IntV(b), IntV(o)>>), writeByte(streams[1], b, o), "none")

WriteBytes ==
    \E bs \in BytesArgs :
        Call("writeBytes", 1, BytesV(bs), writeBytes(streams[1], bs), "none")

WriteInt ==
    \E n \in IntArgs :
        Call("writeInt", 1, IntV(n), writeInt(streams[1], n, -1), "none")

WriteUtf8 ==
    \E str \in Utf8Args :
        Call("writeUtf8", 1, StrV(str), writeUtf8(streams[1], str), "none")

WriteUtf16 ==
    \E str \in Utf16Args :
        Call("writeUtf16", 1, StrV(str), writeUtf16(streams[1], str), "none")

WriteObject ==
    \E i \in 1..Len(ObjectArgs) :
        Call("writeObject", 1, ObjectArgs[i], writeObject(streams[1], 1, streams, ObjectArgs[i]),
             "none")

ReadByte ==
    \E self \in StreamIds :
        Call("readByte", self, NoneV, readByte(streams[self], -1), "int")

ReadBytes ==
    \E n \in AmountArgs :
        Call("readBytes", 1, IntV(n), readBytes(streams[1], n), "bytes")

ReadInt == Call("readInt", 1, NoneV, readInt(streams[1], -1), "int")

ReadUtf8 == Call("readUtf8", 1, NoneV, readUtf8(streams[1]), "str")

ReadUtf16 ==
    \E size \in SizeArgs :
        Call("readUtf16", 1, IntV(size), readUtf16(streams[1], size), "str")

ReadObject == Call("readObject", 1, NoneV, readObject(streams[1]), "value")

ReadFromObjectStream ==
    \E self \in StreamIds, stream \in StreamIds :
        HeapCall("readFromObjectStream", self, StreamRef(stream),
                 readFromObjectStream(streams, self, stream))

Next ==
    \/ WriteByte
    \/ WriteBytes
    \/ WriteInt
    \/ WriteUtf8
    \/ WriteUtf16
    \/ WriteObject
    \/ ReadByte
    \/ ReadBytes
    \/ ReadInt
    \/ ReadUtf8
    \/ ReadUtf16
    \/ ReadObject
    \/ ReadFromObjectStream

Spec == Init /\ [][Next]_vars

TypeOK ==
    /\ nops \in 0..MaxOps
    /\ \A i \in StreamIds : streams[i].offset \in Nat

(***************************************************************************)
(* Properties.                                                             *)
(***************************************************************************)
\* a value of the generic-value codec: integers, booleans, strings, null,
\* lists and maps of these
RECURSIVE IsGeneric(_)
IsGeneric(val) ==
    IF val.k \in {"int", "bool", "str", "none"} THEN TRUE
    ELSE IF val.k = "list" THEN \A i \in 1..Len(val.v) : IsGeneric(val.v[i])
    ELSE IF val.k = "dict" THEN \A i \in 1..Len(val.v) : IsGeneric(val.v[i][2])
    ELSE FALSE

FieldNames(fields) == {fields[i][1] : i \in 1..Len(fields)}

FieldValue(fields, name) == fields[CHOOSE i \in 1..Len(fields) : fields[i][1] = name][2]

\* equality of values in which the order of an object's fields does not count
RECURSIVE ValueEq(_, _)
ValueEq(a, b) ==
    IF a.k # b.k THEN FALSE
    ELSE IF a.k = "obj"
    THEN /\ a.v.mod = b.v.mod
         /\ a.v.cls = b.v.cls
         /\ FieldNames(a.v.fields) = FieldNames(b.v.fields)
         /\ \A n \in FieldNames(a.v.fields) :
                ValueEq(FieldValue(a.v.fields, n), FieldValue(b.v.fields, n))
    ELSE IF a.k = "list"
    THEN Len(a.v) = Len(b.v) /\ \A i \in 1..Len(a.v) : ValueEq(a.v[i], b.v[i])
    ELSE IF a.k = "dict"
    THEN /\ Len(a.v) = Len(b.v)
         /\ \A i \in 1..Len(a.v) : a.v[i][1] = b.v[i][1] /\ ValueEq(a.v[i][2], b.v[i][2])
    ELSE a.v = b.v

\* the latest two calls were op1 and then op2, both on stream 1, and the
\* cursor stood at the end of the stream when op1 began, so that op2 starts
\* at the first byte op1 wrote
WroteThenRead(op1, op2) ==
    /\ prev.op = op1
    /\ last.op = op2
    /\ prev.self = 1
    /\ last.self = 1
    /\ prev.pre[1].offset = Len(prev.pre[1].data)

\* the streams an object read back holds: itself, or the values of its fields
StreamsIn(val) ==
    IF val.k = "newstream" THEN {val.v}
    ELSE IF val.k = "obj"
    THEN {val.v.fields[i][2].v : i \in {j \in 1..Len(val.v.fields) : val.v.fields[j][2].k = "newstream"}}
    ELSE {}

\* the streams an object to write names: itself, or the values of its fields
StreamIdsIn(val) ==
    IF val.k = "stream" THEN {val.v}
    ELSE IF val.k = "obj"
    THEN {val.v.fields[i][2].v : i \in {j \in 1..Len(val.v.fields) : val.v.fields[j][2].k = "stream"}}
    ELSE {}

\* the header of the frame at the cursor of st: both names, the version
\* byte and the 4-byte length
FrameHeader(st) ==
    LET m == readUtf8(st)
        c == readUtf8(m.st)
        v == readByte(c.st, -1)
        n == readInt(v.st, -1)
    IN  [ok |-> m.err = "ok" /\ c.err = "ok" /\ v.err = "ok" /\ n.err = "ok",
         mod |-> m.ret, cls |-> c.ret, length |-> n.ret, bodyStart |-> n.st.offset]

\* C1: writeObject(v) on an empty stream followed by readObject() completes
\* without error and returns a value equal to v, for every generic scalar
\* value v (integers, booleans, strings, null, lists and maps of these).
C1_ScalarRoundTrip ==
    (/\ WroteThenRead("writeObject", "readObject")
     /\ prev.pre[1].data = << >>
     /\ IsGeneric(prev.arg))
    => (prev.err = "ok" /\ last.err = "ok" /\ ValueEq(last.ret, prev.arg))

\* C2: an instance with N >= 0 named fields of a resolvable class, whose
\* write completed, is read back as an instance of the same class with the
\* same field names and recursively equal values, whatever the field order.
C2_CompositeRoundTrip ==
    (/\ WroteThenRead("writeObject", "readObject")
     /\ prev.arg.k = "obj"
     /\ getClass(prev.arg.v.mod, prev.arg.v.cls).err = "ok"
     /\ prev.err = "ok")
    => (last.err = "ok" /\ ValueEq(last.ret, prev.arg))

\* C3: a stream with bytes B and cursor c written by writeObject, directly
\* or as a field value, is read back by readObject as a stream with bytes B
\* and cursor c, and the outer cursor ends right after the frame.
C3_NestedStreamRoundTrip ==
    (/\ WroteThenRead("writeObject", "readObject")
     /\ StreamIdsIn(prev.arg) # {}
     /\ prev.err = "ok")
    => (/\ last.err = "ok"
        /\ StreamsIn(last.ret) = {prev.pre[i] : i \in StreamIdsIn(prev.arg)}
        /\ streams[1].offset = Len(streams[1].data))

\* C4: the 4-byte Length of every frame writeObject appended equals the
\* number of bytes readObject consumes after reading that Length, and
\* readObject started at the frame's first byte stops at the frame's end.
C4_LengthCorrect ==
    (/\ WroteThenRead("writeObject", "readObject")
     /\ prev.err = "ok")
    => (/\ FrameHeader(last.pre[1]).ok
        /\ FrameHeader(last.pre[1]).length = streams[1].offset - FrameHeader(last.pre[1]).bodyStart
        /\ streams[1].offset = Len(streams[1].data))

\* C5: stream.writeObject(stream) fails with RecursionError for every state
\* of the stream, and leaves the bytes and the cursor as they were.
C5_SelfWriteRejected ==
    (last.op = "writeObject" /\ last.arg.k = "stream" /\ last.arg.v = last.self)
    => (last.err = "RecursionError" /\ streams = last.pre)

\* a self write of a stream that holds bytes and whose cursor has moved
C5_Witness ==
    /\ last.op = "writeObject"
    /\ last.arg.k = "stream"
    /\ last.arg.v = last.self
    /\ last.err = "RecursionError"
    /\ streams[last.self].data # << >>
    /\ streams[last.self].offset > 0

\* C6: readObject on a frame whose (module, class) pair names no registered
\* class fails with the type lookup error (TypeError), when the module is
\* unknown and also when the module is known but has no such class.
C6_UnknownTypeFails ==
    (/\ last.op = "readObject"
     /\ FrameHeader(last.pre[1]).ok
     /\ \/ FrameHeader(last.pre[1]).mod \notin DOMAIN SysModules
        \/ FrameHeader(last.pre[1]).cls \notin SysModules[FrameHeader(last.pre[1]).mod])
    => (last.err = "TypeError")

\* C7: a string of code points in [0,255] or in [256,65535] written by
\* writeUtf8 is returned by readUtf8, and the cursor ends just past the
\* terminator.
C7_Utf8RoundTrip ==
    WroteThenRead("writeUtf8", "readUtf8")
    => (/\ prev.err = "ok"
        /\ last.err = "ok"
        /\ ValueEq(last.ret, prev.arg)
        /\ streams[1].offset = Len(streams[1].data))

\* C8: a sequence of 16-bit code points written by writeUtf16 is returned
\* by readUtf16 called without a size.
C8_Utf16RoundTrip ==
    (WroteThenRead("writeUtf16", "readUtf16") /\ last.arg.v = -1)
    => (last.err = "ok" /\ ValueEq(last.ret, prev.arg))

\* C9: after every public call, failed ones too, the cursor of every stream
\* is between 0 and the length of its bytes.
C9_CursorInRange ==
    \A i \in StreamIds : streams[i].offset >= 0 /\ streams[i].offset <= Len(streams[i].data)

\* C10: readUtf8 on a stream whose unread bytes hold no 0 fails with an
\* error; it never returns a string.
C10_UnterminatedFails ==
    (/\ last.op = "readUtf8"
     /\ \A i \in 1..Len(getRemainingBytes(last.pre[1])) : getRemainingBytes(last.pre[1])[i] # 0)
    => (last.err # "ok")

=============================================================================
